---- MODULE Spec2Model ----
(***************************************************************************)
(* Nova Enterprises Security API (src/main.py, src/schemas.py).            *)
(*                                                                         *)
(* The document store is a server shared by every process that serves the *)
(* app.  A request handler takes no lock, so each of its store operations *)
(* (insert_one, find_one, update_one) is one atomic step and the steps of *)
(* different requests interleave.  Each collection is a sequence of       *)
(* documents; a document's _id is its index in the sequence.              *)
(***************************************************************************)
EXTENDS Integers, Sequences, FiniteSets, TLC

\* ---------------------------------------------------------------- bounds
NumUploads == 2      \* upload requests that may run concurrently
NumSlots == 3        \* upload requests of one run
NumReports == 2      \* report requests of one run
MaxLen == 3          \* longest uploaded file, in bytes
ChunkMax == 2        \* the 1 MiB block of _sha256_file, scaled down
NumByteValues == 2   \* distinct byte values

\* ------------------------------------------------------- program constants
Reward == 10         \* {"$inc": {"points": 10, ...}} and points=10

Clients == {"alice", "bob"}
Subjects == {"bug", "idea"}
Bytes == 0 .. (NumByteValues - 1)
UploadIds == 1 .. NumUploads
SlotIds == 1 .. (IF NumSlots >= NumUploads THEN NumSlots ELSE NumUploads)
ReportIds == 1 .. NumReports
None == 0            \* Python's None where a document _id (>= 1) is expected

VARIABLES
    dbConnected,     \* database.db is not None
    smtpConfigured,  \* SMTP_HOST, SMTP_USER and SMTP_PASS are all set
    upload,          \* collection "upload"
    userprogress,    \* collection "userprogress"
    report,          \* collection "report"
    uploadReq,       \* upload_file requests: position and locals
    reportReq,       \* report_issue requests: position and locals
    progressResp     \* the last get_progress call and its outcome

vars == <<dbConnected, smtpConfigured, upload, userprogress, report,
          uploadReq, reportReq, progressResp>>

\* ------------------------------------------------------------- helpers
Min(a, b) == IF a <= b THEN a ELSE b

RECURSIVE FilesUpTo(_)
FilesUpTo(n) ==
    IF n = 0 THEN {<<>>}
    ELSE LET shorter == FilesUpTo(n - 1)
         IN  shorter \cup {Append(f, b) : f \in {g \in shorter : Len(g) = n - 1}, b \in Bytes}

\* hashlib.sha256(): the state of a fresh hasher.
sha256_new == 0

\* hasher.update(chunk): folds the chunk's bytes, in order, into the state.
\* The fold stands for SHA-256's compression: it is injective on the byte
\* sequences of the model, so two digests agree iff the bytes fed agree.
RECURSIVE sha256_update(_, _)
sha256_update(h, chunk) ==
    IF chunk = <<>> THEN h
    ELSE sha256_update(h * (NumByteValues + 1) + Head(chunk) + 1, Tail(chunk))

\* hasher.hexdigest()
hexdigest(h) == h

\* The standard digest of a whole byte sequence.
sha256(B) == hexdigest(sha256_update(sha256_new, B))

\* Documents of a collection that match a {"client_id": c} filter.
MatchClient(coll, c) == {i \in 1 .. Len(coll) : coll[i].client_id = c}

\* Documents of a collection that match {"client_id": c, "subject": s}.
MatchReport(coll, c, s) ==
    {i \in 1 .. Len(coll) : coll[i].client_id = c /\ coll[i].subject = s}

\* Collection.find_one(filter), and the document update_one(filter, ...)
\* acts on: the first match in natural (insertion) order, or None.
find_one(matches) ==
    IF matches = {} THEN None
    ELSE CHOOSE i \in matches : \A j \in matches : i <= j

\* Mutant: the record is built with the schema's defaults (points 0,
\* uploads_count 0) instead of the first reward.
UserProgress_defaults(c, p, n) ==
    [client_id |-> c, points |-> 0, uploads_count |-> 0, badges |-> <<>>]

\* schemas.UserProgress(client_id=c, points=10, uploads_count=1)
UserProgress(c, p, n) ==
    [client_id |-> c, points |-> p, uploads_count |-> n, badges |-> <<>>]

\* Mutant: the increment credits the points and forgets uploads_count.
inc_progress_points_only(doc) ==
    [doc EXCEPT !.points = @ + Reward]

\* {"$inc": {"points": 10, "uploads_count": 1}} applied to one document
inc_progress(doc) ==
    [doc EXCEPT !.points = @ + Reward, !.uploads_count = @ + 1]

\* Mutant: the record is built without client_id=client_id.
Upload_no_client(c, size, checksum) ==
    [client_id |-> "", size_bytes |-> size, sha256 |-> checksum, verdict |-> "scanned"]

\* schemas.Upload(...) as built by upload_file
Upload(c, size, checksum) ==
    [client_id |-> c, size_bytes |-> size, sha256 |-> checksum, verdict |-> "scanned"]

\* schemas.Report(...) as built by report_issue
Report(c, s) == [client_id |-> c, subject |-> s, sent_to_owner |-> FALSE]

\* database.create_document(collection, data): insert, return the new id
create_document(coll, doc) == Append(coll, doc)

\* ---------------------------------------------------------------- state
IdleUpload ==
    [pc |-> "idle", client_id |-> "", file |-> <<>>, pos |-> 0, hasher |-> 0,
     checksum |-> 0, size |-> 0, doc_id |-> None, existing |-> None]

IdleReport ==
    [pc |-> "idle", client_id |-> "", subject |-> "", created |-> None,
     outcome |-> "", sent |-> FALSE]

NoResp == [client_id |-> "", result |-> "none"]

Init ==
    /\ dbConnected \in BOOLEAN
    /\ smtpConfigured \in BOOLEAN
    /\ upload = <<>>
    /\ userprogress = <<>>
    /\ report = <<>>
    /\ uploadReq = [u \in SlotIds |-> IdleUpload]
    /\ reportReq = [r \in ReportIds |-> IdleReport]
    /\ progressResp = NoResp

\* ------------------------------------------------- upload_file (POST /api/uploads)
Req(u) == uploadReq[u]

SetReq(u, r) == uploadReq' = [uploadReq EXCEPT ![u] = r]

UploadFrame == UNCHANGED <<dbConnected, smtpConfigured, report, reportReq, progressResp>>

\* Mutant: the seek is lost and the read position stays where it was.
seek_stay(pos, offset) == pos

\* file.seek(offset): the new read position
seek(pos, offset) == offset

\* The request arrives with its form fields; db is None raises HTTP 500
\* before anything is read or stored.
upload_file_begin(u, files) ==
    /\ Req(u).pc = "idle"
    /\ \E c \in Clients, f \in files :
          SetReq(u, [IdleUpload EXCEPT
                        !.pc = IF dbConnected THEN "hash" ELSE "error",
                        !.client_id = c,
                        !.file = f,
                        !.hasher = sha256_new])
    /\ UNCHANGED <<upload, userprogress>>
    /\ UploadFrame

\* _sha256_file: chunk = await file.read(1024 * 1024), a non-empty chunk of
\* at most one block, fed to the hasher.
sha256_file_read(u) ==
    /\ Req(u).pc = "hash"
    /\ Req(u).pos < Len(Req(u).file)
    /\ \E n \in 1 .. Min(ChunkMax, Len(Req(u).file) - Req(u).pos) :
          LET chunk == SubSeq(Req(u).file, Req(u).pos + 1, Req(u).pos + n)
          IN  SetReq(u, [Req(u) EXCEPT
                            !.pos = @ + n,
                            !.hasher = sha256_update(@, chunk)])
    /\ UNCHANGED <<upload, userprogress>>
    /\ UploadFrame

\* _sha256_file: the read at end of file returns b"" and the loop breaks.
sha256_file_eof(u) ==
    /\ Req(u).pc = "hash"
    /\ Req(u).pos = Len(Req(u).file)
    /\ SetReq(u, [Req(u) EXCEPT !.pc = "seek"])
    /\ UNCHANGED <<upload, userprogress>>
    /\ UploadFrame

\* _sha256_file: await file.seek(0); return hasher.hexdigest()
sha256_file_seek(u) ==
    /\ Req(u).pc = "seek"
    /\ SetReq(u, [Req(u) EXCEPT
                     !.pc = "size",
                     !.pos = seek(@, 0),
                     !.checksum = hexdigest(Req(u).hasher)])
    /\ UNCHANGED <<upload, userprogress>>
    /\ UploadFrame

\* content = await file.read(); size = len(content): everything from the
\* read position to the end.
upload_file_read(u) ==
    /\ Req(u).pc = "size"
    /\ LET content == SubSeq(Req(u).file, Req(u).pos + 1, Len(Req(u).file))
       IN  SetReq(u, [Req(u) EXCEPT
                         !.pc = "rewind",
                         !.pos = Len(Req(u).file),
                         !.size = Len(content)])
    /\ UNCHANGED <<upload, userprogress>>
    /\ UploadFrame

\* await file.seek(0)
upload_file_seek(u) ==
    /\ Req(u).pc = "rewind"
    /\ SetReq(u, [Req(u) EXCEPT !.pc = "create", !.pos = seek(@, 0)])
    /\ UNCHANGED <<upload, userprogress>>
    /\ UploadFrame

\* metadata = Upload(...); doc_id = create_document("upload", metadata)
upload_file_create(u) ==
    /\ Req(u).pc = "create"
    /\ upload' = create_document(upload,
                     Upload(Req(u).client_id, Req(u).size, Req(u).checksum))
    /\ SetReq(u, [Req(u) EXCEPT !.pc = "find", !.doc_id = Len(upload')])
    /\ UNCHANGED userprogress
    /\ UploadFrame

\* existing = db["userprogress"].find_one({"client_id": client_id})
upload_file_find(u) ==
    /\ Req(u).pc = "find"
    /\ SetReq(u, [Req(u) EXCEPT
                     !.pc = "credit",
                     !.existing = find_one(MatchClient(userprogress, Req(u).client_id))])
    /\ UNCHANGED <<upload, userprogress>>
    /\ UploadFrame

\* What the handler keeps once it has returned {ok, id, sha256}.
Returned(r) ==
    [IdleUpload EXCEPT !.pc = "done", !.client_id = r.client_id,
                       !.doc_id = r.doc_id, !.checksum = r.checksum]

\* if existing: update_one({"_id": existing["_id"]}, {"$inc": ...}); return
upload_file_inc(u) ==
    /\ Req(u).pc = "credit"
    /\ Req(u).existing # None
    /\ userprogress' = [userprogress EXCEPT
                           ![Req(u).existing] = inc_progress(@)]
    /\ SetReq(u, Returned(Req(u)))
    /\ UNCHANGED upload
    /\ UploadFrame

\* else: create_document("userprogress", UserProgress(client_id, 10, 1)); return
upload_file_new(u) ==
    /\ Req(u).pc = "credit"
    /\ Req(u).existing = None
    /\ userprogress' = create_document(userprogress,
                           UserProgress(Req(u).client_id, Reward, 1))
    /\ SetReq(u, Returned(Req(u)))
    /\ UNCHANGED upload
    /\ UploadFrame

InFlight(r) == r.pc \notin {"idle", "done", "error", "crashed"}

\* The serving process dies, or a store operation raises, part-way through
\* the handler: nothing is rolled back.
upload_file_crash(u) ==
    /\ InFlight(Req(u))
    /\ SetReq(u, [IdleUpload EXCEPT !.pc = "crashed",
                                    !.client_id = Req(u).client_id])
    /\ UNCHANGED <<upload, userprogress>>
    /\ UploadFrame

\* ------------------------------------------ get_progress (GET /api/progress/{id})
ProgressDefaults == [points |-> 0, uploads_count |-> 0, badges |-> <<>>]

\* What `if db` can do with a connected handle: the handle is the driver's
\* Database object, whose truth test either yields True or raises
\* NotImplementedError (the driver asks for `db is not None`, the test
\* every other handler of main.py uses).
db_truth == {"true", "raises"}

\* The response of get_progress(client_id) for one outcome of `if db`.
get_progress_result(c, truth) ==
    IF ~dbConnected THEN [status |-> "ok", body |-> ProgressDefaults]
    ELSE IF truth = "raises"
         THEN [status |-> "error", body |-> [detail |-> "NotImplementedError"]]
    ELSE LET doc == find_one(MatchClient(userprogress, c))
         IN  IF doc = None THEN [status |-> "ok", body |-> ProgressDefaults]
             ELSE [status |-> "ok", body |-> userprogress[doc]]

get_progress(c) ==
    /\ \E truth \in db_truth :
          progressResp' = [client_id |-> c, result |-> get_progress_result(c, truth)]
    /\ UNCHANGED <<dbConnected, smtpConfigured, upload, userprogress, report, uploadReq, reportReq>>

\* ------------------------------------------------- report_issue (POST /api/report)
Rep(r) == reportReq[r]

SetRep(r, v) == reportReq' = [reportReq EXCEPT ![r] = v]

ReportFrame == UNCHANGED <<dbConnected, smtpConfigured, upload, userprogress, uploadReq, progressResp>>

\* db is None raises HTTP 500; otherwise create_document("report", report).
\* The handler drops the id create_document returns; `created` records it.
report_issue_create(r) ==
    /\ Rep(r).pc = "idle"
    /\ \E c \in Clients, s \in Subjects :
          IF dbConnected
          THEN /\ report' = create_document(report, Report(c, s))
               /\ SetRep(r, [IdleReport EXCEPT !.pc = "mail", !.client_id = c,
                                               !.subject = s,
                                               !.created = Len(report')])
          ELSE /\ SetRep(r, [IdleReport EXCEPT !.pc = "error", !.client_id = c,
                                               !.subject = s])
               /\ UNCHANGED report
    /\ ReportFrame

\* How the single delivery attempt (the try block of report_issue) can
\* fail once mail is configured: an exception at connect, starttls, login,
\* send_message, or at the QUIT on leaving the with block.  (A malformed
\* SMTP_PORT raises before the connection on every request; it behaves as
\* a connect failure.)
MailFailures == {"connect", "starttls", "login", "send", "quit"}

\* if smtp_host and smtp_user and smtp_pass: ... sent = True, with
\* `except Exception: sent = False`: the outcomes of the block.
MailOutcomes ==
    IF smtpConfigured THEN MailFailures \cup {"ok"} ELSE {"unconfigured"}

\* `sent` after the try block.
delivered(outcome) == outcome = "ok"

\* The delivery block ends with sent = False: nothing is updated and the
\* handler returns {"ok": True, "sent": False, ...}.
report_issue_unsent(r) ==
    /\ Rep(r).pc = "mail"
    /\ \E o \in MailOutcomes :
          /\ ~delivered(o)
          /\ SetRep(r, [Rep(r) EXCEPT !.pc = "done", !.outcome = o, !.sent = FALSE])
    /\ UNCHANGED report
    /\ ReportFrame

\* The delivery block ends with sent = True.
report_issue_sent(r) ==
    /\ Rep(r).pc = "mail"
    /\ \E o \in MailOutcomes :
          /\ delivered(o)
          /\ SetRep(r, [Rep(r) EXCEPT !.pc = "mark", !.outcome = o, !.sent = TRUE])
    /\ UNCHANGED report
    /\ ReportFrame

\* if sent: db["report"].update_one({"client_id", "subject"},
\*              {"$set": {"sent_to_owner": True}}); return {"sent": True}
report_issue_mark(r) ==
    /\ Rep(r).pc = "mark"
    /\ LET doc == find_one(MatchReport(report, Rep(r).client_id, Rep(r).subject))
       IN  report' = IF doc = None THEN report
                     ELSE [report EXCEPT ![doc].sent_to_owner = TRUE]
    /\ SetRep(r, [Rep(r) EXCEPT !.pc = "done"])
    /\ ReportFrame

\* The serving process dies part-way through the handler.
report_issue_crash(r) ==
    /\ Rep(r).pc \in {"mail", "mark"}
    /\ SetRep(r, [Rep(r) EXCEPT !.pc = "crashed"])
    /\ UNCHANGED report
    /\ ReportFrame

\* ------------------------------------------------------------ specifications
\* Contents used where the ledger, not the digest, is under study: the
\* empty file and a one-byte file.
LedgerFiles == {<<>>, <<0>>}

\* Every content of at most MaxLen bytes.
AllFiles == FilesUpTo(MaxLen)

UploadStep(u) ==
    \/ sha256_file_read(u)
    \/ sha256_file_eof(u)
    \/ sha256_file_seek(u)
    \/ upload_file_read(u)
    \/ upload_file_seek(u)
    \/ upload_file_create(u)
    \/ upload_file_find(u)
    \/ upload_file_inc(u)
    \/ upload_file_new(u)

\* Uploads and progress lookups, interleaved at every store operation.
NextLedger ==
    \/ \E u \in UploadIds :
          \/ upload_file_begin(u, LedgerFiles)
          \/ UploadStep(u)
          \/ upload_file_crash(u)
    \/ \E c \in Clients : get_progress(c)

\* upload_file and get_progress never read the mail settings: one value of
\* smtpConfigured stands for both.
InitLedger == Init /\ ~smtpConfigured

SpecLedger == InitLedger /\ [][NextLedger]_vars

\* Report submissions, interleaved at every store operation.
NextReport ==
    \E r \in ReportIds :
        \/ report_issue_create(r)
        \/ report_issue_unsent(r)
        \/ report_issue_sent(r)
        \/ report_issue_mark(r)
        \/ report_issue_crash(r)

SpecReport == Init /\ [][NextReport]_vars

\* The whole service.
Next == NextLedger \/ NextReport

Spec == Init /\ [][Next]_vars

\* Uploads performed one after another, none failing: a request begins only
\* when no other is in flight.
NoneInFlight == \A u \in SlotIds : ~InFlight(Req(u))

NextSeq ==
    \E u \in SlotIds :
        \/ (NoneInFlight /\ upload_file_begin(u, LedgerFiles))
        \/ UploadStep(u)

SpecSeq == Init /\ [][NextSeq]_vars

\* One upload, of any content, from its arrival to its stored record.
NextDigest ==
    \/ upload_file_begin(1, AllFiles)
    \/ sha256_file_read(1)
    \/ sha256_file_eof(1)
    \/ sha256_file_seek(1)
    \/ upload_file_read(1)
    \/ upload_file_seek(1)
    \/ upload_file_create(1)

SpecDigest == Init /\ [][NextDigest]_vars

\* ================================================================== claims
\* Upload requests of client c that returned their response.
DoneFor(c) == {u \in SlotIds : Req(u).pc = "done" /\ Req(u).client_id = c}

\* Upload requests of client c, in whatever position.
RequestsOf(c) == {u \in SlotIds : Req(u).pc # "idle" /\ Req(u).client_id = c}

RECURSIVE SumUploadsCount(_)
SumUploadsCount(docs) ==
    IF docs = {} THEN 0
    ELSE LET d == CHOOSE x \in docs : TRUE
         IN  userprogress[d].uploads_count + SumUploadsCount(docs \ {d})

\* uploads_count credited to client c, over every userprogress record of c.
Credited(c) == SumUploadsCount(MatchClient(userprogress, c))

\* C1: once N >= 1 concurrent uploads of one client_id have all completed,
\* the progress reported for it is exactly points = 10 * N, uploads_count = N.
\* (The lookup is taken with a working truth test of db, so that only the
\* ledger decides.)
C1_ConcurrentUploadsCounted ==
    \A c \in Clients :
        LET N == Cardinality(DoneFor(c))
        IN  (N >= 1 /\ RequestsOf(c) = DoneFor(c))
            => get_progress_result(c, "true")
                 = [status |-> "ok",
                    body |-> [client_id |-> c, points |-> 10 * N,
                              uploads_count |-> N, badges |-> <<>>]]

\* C2: when a report submission whose mail delivery succeeded completes,
\* the report record that submission created has sent_to_owner = true.
C2_DeliveredReportMarked ==
    \A r \in ReportIds :
        (Rep(r).pc = "done" /\ Rep(r).outcome = "ok")
        => /\ Rep(r).sent
           /\ report[Rep(r).created].sent_to_owner

\* C3: a stored report has sent_to_owner = true only if the delivery of
\* that very report was confirmed; otherwise it stays false, whatever other
\* submissions do.
C3_MarkedOnlyOnOwnDelivery ==
    \A r \in ReportIds :
        (Rep(r).created # None /\ report[Rep(r).created].sent_to_owner)
        => Rep(r).outcome = "ok"

\* C4: the userprogress collection never holds two records of one client_id.
C4_OneRecordPerClient ==
    \A c \in Clients : Cardinality(MatchClient(userprogress, c)) <= 1

\* C5: with uploads performed one after another, once k >= 1 uploads of a
\* client have succeeded its progress is one record with points = 10 * k
\* and uploads_count = k, whatever the files' contents.
C5_SequentialUploadsCounted ==
    NoneInFlight =>
        \A c \in Clients :
            LET k == Cardinality(DoneFor(c))
                docs == MatchClient(userprogress, c)
            IN  IF k = 0 THEN docs = {}
                ELSE /\ Cardinality(docs) = 1
                     /\ \A d \in docs : /\ userprogress[d].points = 10 * k
                                        /\ userprogress[d].uploads_count = k

\* Three sequential uploads of one client, two with the same content and
\* one with another, all credited.
C5_Witness ==
    /\ NoneInFlight
    /\ \E c \in Clients :
          /\ Cardinality(DoneFor(c)) = 3
          /\ \E u, v, w \in DoneFor(c) :
                /\ u # v
                /\ Req(u).checksum = Req(v).checksum
                /\ Req(w).checksum # Req(u).checksum
          /\ \E d \in MatchClient(userprogress, c) : userprogress[d].points = 30

\* C6: when a report submission whose delivery was not confirmed completes,
\* its response is sent = false and the report it created is stored with
\* sent_to_owner = false.
C6_UndeliveredReportKeptUnsent ==
    [][\A r \in ReportIds :
          (Rep(r).pc = "mail" /\ reportReq'[r].pc = "done")
          => /\ ~reportReq'[r].sent
             /\ Rep(r).created \in 1 .. Len(report')
             /\ ~report'[Rep(r).created].sent_to_owner]_vars

\* C7: after the digest pass the read position is at the origin and the
\* checksum is the digest of the whole content, however the pass split it
\* into blocks; the stored upload record has size_bytes = length of the
\* content and sha256 = digest of the content.
C7_DigestAndSizeOfWholeContent ==
    \A u \in SlotIds :
        /\ Req(u).pc = "size"
           => /\ Req(u).pos = 0
              /\ Req(u).checksum = sha256(Req(u).file)
        /\ Req(u).pc = "find"
           => /\ upload[Req(u).doc_id].size_bytes = Len(Req(u).file)
              /\ upload[Req(u).doc_id].sha256 = sha256(Req(u).file)

\* A stored record of a file longer than one block (hashed in two blocks or
\* more), with its size and digest.
C7_Witness ==
    \E u \in SlotIds :
        /\ Req(u).pc = "find"
        /\ Len(Req(u).file) > ChunkMax
        /\ upload[Req(u).doc_id].size_bytes = Len(Req(u).file)
        /\ upload[Req(u).doc_id].sha256 = sha256(Req(u).file)

\* C8: a progress lookup for a client_id with no progress record answers
\* the zero defaults, never an error, and leaves the store unchanged.
C8_UnknownClientDefaults ==
    [][\A c \in Clients :
          (get_progress(c) /\ MatchClient(userprogress, c) = {})
          => /\ progressResp'.result = [status |-> "ok", body |-> ProgressDefaults]
             /\ UNCHANGED <<upload, userprogress, report>>]_vars

\* C9: for each client_id the uploads_count credited in userprogress never
\* exceeds the number of upload records stored for it.
C9_CreditNeverExceedsUploads ==
    \A c \in Clients : Credited(c) <= Cardinality(MatchClient(upload, c))

\* A crash between the two writes: an upload record without its credit,
\* beside credited ones.
C9_Witness ==
    \E c \in Clients :
        /\ \E u \in SlotIds : Req(u).pc = "crashed" /\ Req(u).client_id = c
        /\ Credited(c) >= 1
        /\ Credited(c) < Cardinality(MatchClient(upload, c))

C10_Inv ==
    \A i \in 1 .. Len(userprogress) :
        /\ userprogress[i].points = 10 * userprogress[i].uploads_count
        /\ userprogress[i].uploads_count >= 1

C10_Step ==
    \A i \in 1 .. Len(userprogress) :
        /\ i <= Len(userprogress')
        /\ userprogress'[i].client_id = userprogress[i].client_id
        /\ userprogress'[i].points >= userprogress[i].points
        /\ userprogress'[i].uploads_count >= userprogress[i].uploads_count

\* C10: every userprogress record has points = 10 * uploads_count and
\* uploads_count >= 1, and from one state to the next no record disappears
\* and neither field decreases.
C10_PointsFollowUploads == []C10_Inv /\ [][C10_Step]_vars

\* A record credited twice by increments.
C10_Witness ==
    \E i \in 1 .. Len(userprogress) :
        /\ userprogress[i].uploads_count = 2
        /\ userprogress[i].points = 20

====
